---- MODULE Spec2Model ----
(***************************************************************************)
(* A model of h2o-py's ModelBase (h2o/model/model_base.py): the client-side *)
(* view of a model stored on an H2O cluster.  The view's fields are the     *)
(* state; each public operation is one action; every operation leaves in    *)
(* `last` what it returned or raised and the calls it made on its           *)
(* collaborators (cluster, job handle, console), in the order it made them. *)
(***************************************************************************)
EXTENDS Integers, Sequences, FiniteSets, TLC

VARIABLES
    _id,          \* ModelBase._id: the model key, or None
    _model_json,  \* ModelBase._model_json: the last fetched document, or None
    _future,      \* ModelBase._future: TRUE while a build job is outstanding
    _job,         \* ModelBase._job: the job handle while _future, else None
    parms,        \* ModelBase.parms: name -> {default_value, actual_value}
    cluster,      \* the model keys that exist on the remote cluster
    last,         \* the last operation: its arguments, outcome and calls
    memo          \* a metric read remembered for a later comparison, or None

vars == <<_id, _model_json, _future, _job, parms, cluster, last, memo>>

-----------------------------------------------------------------------------
(* Values.  Python values are records tagged with their type, so that None  *)
(* can stand wherever an object can.                                        *)

\* The number of different snapshots the cluster can serve for a model.
MaxVersion == 2

None == [type |-> "NoneType"]

\* A dict key that is not present ("key in model" is False).
Missing == [type |-> "KeyMissing"]

Key(s) == [type |-> "str", s |-> s]

ModelIds == {Key("modelA"), Key("modelB")}

Roles == {"train", "valid", "xval"}

\* The ten metric-scalar accessors and the four deviance accessors.
MetricStats == {"r2", "mse", "rmse", "mae", "rmsle", "logloss",
                "mean_residual_deviance", "auc", "aic", "gini"}

DevianceStats == {"residual_deviance", "residual_degrees_of_freedom",
                  "null_deviance", "null_degrees_of_freedom"}

\* A metrics view (H2OModelMetrics) of the block computed on `role` data in
\* snapshot `ver`.
Metrics(role, ver) == [type |-> "H2OModelMetrics", role |-> role, version |-> ver]

\* v.<stat>(): the statistic `stat` held by metrics view v.
StatValue(v, stat) ==
    [type |-> "float", stat |-> stat, role |-> v.role, version |-> v.version]

Table(name, ver) == [type |-> "H2OTwoDimTable", name |-> name, version |-> ver]

\* H2OTwoDimTable.as_data_frame()
as_data_frame(t) == [type |-> "DataFrame", name |-> t.name, version |-> t.version]

\* block `role` of snapshot `ver` when present, else None
Block(present, role, ver) == IF present THEN Metrics(role, ver) ELSE None

EntryKinds == {"missing", "none", "table"}

\* output[name] of snapshot `ver`: not in the output, None, or a table
Entry(kind, name, ver) ==
    CASE kind = "missing" -> Missing
      [] kind = "none" -> None
      [] kind = "table" -> Table(name, ver)

\* Snapshot `ver` of a model's document.  tm, vm, xm: whether the metric
\* block of that role was computed (None if not); ms, sh: the kind of the
\* table entries (the coefficients table is of the kind of the summary, the
\* variable importances of the kind of the scoring history).
Document(ver, tm, vm, xm, ms, sh) ==
    [algo |-> "gbm",
     algo_full_name |-> "Gradient Boosting Machine",
     output |-> [training_metrics |-> Block(tm, "train", ver),
                 validation_metrics |-> Block(vm, "valid", ver),
                 cross_validation_metrics |-> Block(xm, "xval", ver),
                 model_summary |-> Entry(ms, "model_summary", ver),
                 cross_validation_metrics_summary |-> None,
                 scoring_history |-> Entry(sh, "scoring_history", ver),
                 coefficients_table |-> Entry(ms, "coefficients_table", ver),
                 variable_importances |-> Entry(sh, "variable_importances", ver)]]

\* Every document a view can hold.
Documents ==
    { Document(ver, tm, vm, xm, ms, sh) :
        ver \in 1..MaxVersion, tm \in BOOLEAN, vm \in BOOLEAN, xm \in BOOLEAN,
        ms \in EntryKinds, sh \in EntryKinds }

\* The documents the builds of the lifecycle fetch: a model built with
\* validation and cross-validation, or with neither.
BuiltDocuments ==
    { Document(ver, TRUE, b, b, "table", IF b THEN "table" ELSE "missing") :
        ver \in 1..MaxVersion, b \in BOOLEAN }

-----------------------------------------------------------------------------
(* Outcomes and the calls an operation makes.                               *)

Ev(kind, arg) == [ev |-> kind, arg |-> arg]

Return(v, events) == [outcome |-> "return", value |-> v, exc |-> "", events |-> events]

Raise(e, events) == [outcome |-> "raise", value |-> None, exc |-> e, events |-> events]

EmptyDict == [k \in {} |-> None]

\* d[k] = v
Put(d, k, v) == [x \in DOMAIN d \cup {k} |-> IF x = k THEN v ELSE d[x]]

IsDict(x) == "type" \notin DOMAIN x

-----------------------------------------------------------------------------
(* ModelBase._get_metrics and the accessors built on it.                    *)

\* _get_metrics without its fallback to the training block (line 761).
_get_metrics_no_default(mj, train, valid, xval) ==
    IF mj = None
    THEN Raise("TypeError", <<>>)
    ELSE LET output == mj.output
             m1 == IF train THEN Put(EmptyDict, "train", output.training_metrics)
                   ELSE EmptyDict
             m2 == IF valid THEN Put(m1, "valid", output.validation_metrics) ELSE m1
             m3 == IF xval THEN Put(m2, "xval", output.cross_validation_metrics) ELSE m2
         IN  Return(m3, <<Ev("read", "output")>>)

\* ModelBase._get_metrics(o, train, valid, xval), o._model_json being mj
_get_metrics(mj, train, valid, xval) ==
    IF mj = None
    THEN Raise("TypeError", <<>>)
    ELSE LET output == mj.output
             e0 == <<Ev("read", "output")>>
             m0 == EmptyDict
             m1 == IF train THEN Put(m0, "train", output.training_metrics) ELSE m0
             e1 == IF train THEN Append(e0, Ev("read", "training_metrics")) ELSE e0
             m2 == IF valid THEN Put(m1, "valid", output.validation_metrics) ELSE m1
             e2 == IF valid THEN Append(e1, Ev("read", "validation_metrics")) ELSE e1
             m3 == IF xval THEN Put(m2, "xval", output.cross_validation_metrics) ELSE m2
             e3 == IF xval THEN Append(e2, Ev("read", "cross_validation_metrics")) ELSE e2
             m4 == IF Cardinality(DOMAIN m3) = 0
                   THEN Put(m3, "train", output.training_metrics) ELSE m3
             e4 == IF Cardinality(DOMAIN m3) = 0
                   THEN Append(e3, Ev("read", "training_metrics")) ELSE e3
         IN  Return(m4, e4)

\* list(m.values())[0] if len(m) == 1 else m
single_or_dict(m) ==
    IF Cardinality(DOMAIN m) = 1 THEN m[CHOOSE k \in DOMAIN m : TRUE] ELSE m

\* for k, v in viewitems(tm): m[k] = None if v is None else v.<stat>()
stat_of_each(tm, stat) ==
    [k \in DOMAIN tm |-> IF tm[k] = None THEN None ELSE StatValue(tm[k], stat)]

r2(mj, train, valid, xval) ==
    LET tm == _get_metrics(mj, train, valid, xval)
    IN  IF tm.outcome = "raise" THEN tm
        ELSE Return(single_or_dict(stat_of_each(tm.value, "r2")), tm.events)

\* mse calling v.mse() on every resolved block, None included.
mse_unguarded(mj, train, valid, xval) ==
    LET tm == _get_metrics(mj, train, valid, xval)
    IN  IF tm.outcome = "raise" THEN tm
        ELSE IF \E k \in DOMAIN tm.value : tm.value[k] = None
        THEN Raise("AttributeError", tm.events)
        ELSE Return(single_or_dict(stat_of_each(tm.value, "mse")), tm.events)

mse(mj, train, valid, xval) ==
    LET tm == _get_metrics(mj, train, valid, xval)
    IN  IF tm.outcome = "raise" THEN tm
        ELSE Return(single_or_dict(stat_of_each(tm.value, "mse")), tm.events)

rmse(mj, train, valid, xval) ==
    LET tm == _get_metrics(mj, train, valid, xval)
    IN  IF tm.outcome = "raise" THEN tm
        ELSE Return(single_or_dict(stat_of_each(tm.value, "rmse")), tm.events)

mae(mj, train, valid, xval) ==
    LET tm == _get_metrics(mj, train, valid, xval)
    IN  IF tm.outcome = "raise" THEN tm
        ELSE Return(single_or_dict(stat_of_each(tm.value, "mae")), tm.events)

rmsle(mj, train, valid, xval) ==
    LET tm == _get_metrics(mj, train, valid, xval)
    IN  IF tm.outcome = "raise" THEN tm
        ELSE Return(single_or_dict(stat_of_each(tm.value, "rmsle")), tm.events)

logloss(mj, train, valid, xval) ==
    LET tm == _get_metrics(mj, train, valid, xval)
    IN  IF tm.outcome = "raise" THEN tm
        ELSE Return(single_or_dict(stat_of_each(tm.value, "logloss")), tm.events)

mean_residual_deviance(mj, train, valid, xval) ==
    LET tm == _get_metrics(mj, train, valid, xval)
    IN  IF tm.outcome = "raise" THEN tm
        ELSE Return(single_or_dict(stat_of_each(tm.value, "mean_residual_deviance")),
                    tm.events)

auc(mj, train, valid, xval) ==
    LET tm == _get_metrics(mj, train, valid, xval)
    IN  IF tm.outcome = "raise" THEN tm
        ELSE Return(single_or_dict(stat_of_each(tm.value, "auc")), tm.events)

\* aic reading the training block whatever roles are requested.
aic_training_only(mj, train, valid, xval) ==
    LET tm == _get_metrics(mj, TRUE, FALSE, FALSE)
    IN  IF tm.outcome = "raise" THEN tm
        ELSE Return(single_or_dict(stat_of_each(tm.value, "aic")), tm.events)

aic(mj, train, valid, xval) ==
    LET tm == _get_metrics(mj, train, valid, xval)
    IN  IF tm.outcome = "raise" THEN tm
        ELSE Return(single_or_dict(stat_of_each(tm.value, "aic")), tm.events)

\* gini returning the mapping whatever its size.
gini_always_dict(mj, train, valid, xval) ==
    LET tm == _get_metrics(mj, train, valid, xval)
    IN  IF tm.outcome = "raise" THEN tm
        ELSE Return(stat_of_each(tm.value, "gini"), tm.events)

gini(mj, train, valid, xval) ==
    LET tm == _get_metrics(mj, train, valid, xval)
    IN  IF tm.outcome = "raise" THEN tm
        ELSE Return(single_or_dict(stat_of_each(tm.value, "gini")), tm.events)

\* The accessor named `stat`.
metric_accessor(stat, mj, train, valid, xval) ==
    CASE stat = "r2" -> r2(mj, train, valid, xval)
      [] stat = "mse" -> mse(mj, train, valid, xval)
      [] stat = "rmse" -> rmse(mj, train, valid, xval)
      [] stat = "mae" -> mae(mj, train, valid, xval)
      [] stat = "rmsle" -> rmsle(mj, train, valid, xval)
      [] stat = "logloss" -> logloss(mj, train, valid, xval)
      [] stat = "mean_residual_deviance" -> mean_residual_deviance(mj, train, valid, xval)
      [] stat = "auc" -> auc(mj, train, valid, xval)
      [] stat = "aic" -> aic(mj, train, valid, xval)
      [] stat = "gini" -> gini(mj, train, valid, xval)

-----------------------------------------------------------------------------
(* The deviance / degrees-of-freedom accessors: at most one role.           *)

\* self._model_json["output"][block].<stat>(), after the calls in `events`
block_stat(mj, block, stat, events) ==
    IF mj = None
    THEN Raise("TypeError", events)
    ELSE LET v == mj.output[block]
             e == events \o <<Ev("read", "output"), Ev("read", block)>>
         IN  IF v = None THEN Raise("AttributeError", e)
             ELSE Return(StatValue(v, stat), e)

\* residual_deviance without its cross-validation check (line 396).
residual_deviance_xval_unchecked(mj, train, valid, xval) ==
    LET t1 == IF ~train /\ ~valid THEN TRUE ELSE train
    IN  IF t1 THEN block_stat(mj, "training_metrics", "residual_deviance", <<>>)
        ELSE block_stat(mj, "validation_metrics", "residual_deviance", <<>>)

residual_deviance(mj, train, valid, xval) ==
    IF xval THEN Raise("H2OValueError", <<>>)
    ELSE LET t1 == IF ~train /\ ~valid THEN TRUE ELSE train
             t2 == IF t1 /\ valid THEN TRUE ELSE t1
         IN  IF t2 THEN block_stat(mj, "training_metrics", "residual_deviance", <<>>)
             ELSE block_stat(mj, "validation_metrics", "residual_deviance", <<>>)

residual_degrees_of_freedom(mj, train, valid, xval) ==
    IF xval THEN Raise("H2OValueError", <<>>)
    ELSE LET t1 == IF ~train /\ ~valid THEN TRUE ELSE train
             t2 == IF t1 /\ valid THEN TRUE ELSE t1
         IN  IF t2
             THEN block_stat(mj, "training_metrics", "residual_degrees_of_freedom", <<>>)
             ELSE block_stat(mj, "validation_metrics", "residual_degrees_of_freedom", <<>>)

null_deviance(mj, train, valid, xval) ==
    IF xval THEN Raise("H2OValueError", <<>>)
    ELSE LET t1 == IF ~train /\ ~valid THEN TRUE ELSE train
             t2 == IF t1 /\ valid THEN TRUE ELSE t1
         IN  IF t2 THEN block_stat(mj, "training_metrics", "null_deviance", <<>>)
             ELSE block_stat(mj, "validation_metrics", "null_deviance", <<>>)

\* null_degrees_of_freedom preferring the validation block when both roles
\* are requested.
null_degrees_of_freedom_valid_wins(mj, train, valid, xval) ==
    IF xval THEN Raise("H2OValueError", <<>>)
    ELSE IF valid
         THEN block_stat(mj, "validation_metrics", "null_degrees_of_freedom", <<>>)
         ELSE block_stat(mj, "training_metrics", "null_degrees_of_freedom", <<>>)

null_degrees_of_freedom(mj, train, valid, xval) ==
    IF xval THEN Raise("H2OValueError", <<>>)
    ELSE LET t1 == IF ~train /\ ~valid THEN TRUE ELSE train
             t2 == IF t1 /\ valid THEN TRUE ELSE t1
         IN  IF t2
             THEN block_stat(mj, "training_metrics", "null_degrees_of_freedom", <<>>)
             ELSE block_stat(mj, "validation_metrics", "null_degrees_of_freedom", <<>>)

\* The accessor named `stat`.
deviance_accessor(stat, mj, train, valid, xval) ==
    CASE stat = "residual_deviance" -> residual_deviance(mj, train, valid, xval)
      [] stat = "residual_degrees_of_freedom" ->
            residual_degrees_of_freedom(mj, train, valid, xval)
      [] stat = "null_deviance" -> null_deviance(mj, train, valid, xval)
      [] stat = "null_degrees_of_freedom" ->
            null_degrees_of_freedom(mj, train, valid, xval)

-----------------------------------------------------------------------------
(* The table reads and the display.                                         *)

\* ModelBase.scoring_history()
scoring_history(mj) ==
    IF mj = None
    THEN Raise("TypeError", <<>>)
    ELSE LET model == mj.output
             e == <<Ev("read", "output")>>
         IN  IF model.scoring_history # Missing /\ model.scoring_history # None
             THEN Return(as_data_frame(model.scoring_history),
                         Append(e, Ev("read", "scoring_history")))
             ELSE Return(None, Append(e, Ev("print", "No score history for this model")))

\* ModelBase.summary()
summary(mj) ==
    IF mj = None
    THEN Raise("TypeError", <<>>)
    ELSE LET model == mj.output
             e == <<Ev("read", "output")>>
         IN  IF model.model_summary # Missing /\ model.model_summary # None
             THEN Return(model.model_summary, Append(e, Ev("read", "model_summary")))
             ELSE Return(None, Append(e, Ev("print", "No model summary for this model")))

\* if x: x.show()
show_if(x, name) ==
    IF x # None /\ x # Missing
    THEN <<Ev("read", name), Ev("print", name)>>
    ELSE <<Ev("read", name)>>

\* ModelBase.show() once the view is known not to be Pending
show_ready(mj, id) ==
    IF mj = None
    THEN Return(None, <<Ev("print", "No model trained yet")>>)
    ELSE IF id = None
    THEN Return(None, <<Ev("print", "This H2OEstimator has been removed.")>>)
    ELSE LET model == mj.output
             head == <<Ev("read", "output"), Ev("print", "Model Details"),
                       Ev("read", "algo_full_name"), Ev("print", mj.algo_full_name),
                       Ev("print", id.s)>>
             s == summary(mj)
         IN  Return(None,
                    head \o s.events
                         \o show_if(model.training_metrics, "training_metrics")
                         \o show_if(model.validation_metrics, "validation_metrics")
                         \o show_if(model.cross_validation_metrics,
                                    "cross_validation_metrics")
                         \o show_if(model.cross_validation_metrics_summary,
                                    "cross_validation_metrics_summary")
                         \o IF model.scoring_history # Missing
                            THEN show_if(model.scoring_history, "scoring_history")
                            ELSE <<>>)

\* show() waiting for the job instead of checking it once.
show_blocking(fut, mj, id) ==
    IF fut
    THEN LET r == show_ready(mj, id)
         IN  Return(None, <<Ev("call", "poll")>> \o r.events)
    ELSE show_ready(mj, id)

\* ModelBase.show(), on a view whose fields are fut, mj and id
show(fut, mj, id) ==
    IF fut
    THEN Return(None, <<Ev("call", "poll_once")>>)
    ELSE show_ready(mj, id)

-----------------------------------------------------------------------------
(* The parameter views.                                                     *)

\* The largest ntrees a snapshot carries.
MaxTrees == 2

Num(n) == [type |-> "int", v |-> n]

\* A parameter's record in the snapshot.
Parm(default, actual) == [default_value |-> default, actual_value |-> actual]

\* The four parameters that refer to other entities, and one that does not.
ParamNames == {"model_id", "response_column", "training_frame", "validation_frame",
               "ntrees"}

\* The actual values the cluster reports for parameter p: a reference to a
\* key or a column (a dict with a "name" or "column_name" entry, or without
\* it), None for a reference that was not given, a number for ntrees.
ActualValues(p) ==
    CASE p = "model_id" -> {[name |-> Key("modelA"), URL |-> None]}
      [] p = "training_frame" -> {[name |-> Key("train.hex"), URL |-> None]}
      [] p = "validation_frame" ->
            {[name |-> Key("valid.hex"), URL |-> None], None}
      [] p = "response_column" ->
            {[column_name |-> Key("y")], [is_member_of_frames |-> None], None}
      [] p = "ntrees" -> {Num(n) : n \in 1..MaxTrees}

DefaultValue(p) == IF p = "ntrees" THEN Num(1) ELSE None

\* Every snapshot a view can hold: any set of the parameters, each with one
\* of its actual values.
ParmsSnapshots ==
    UNION { { [p \in N |-> Parm(DefaultValue(p), f[p])] :
                f \in { g \in [N -> UNION {ActualValues(p) : p \in N}] :
                          \A p \in N : g[p] \in ActualValues(p) } } :
            N \in SUBSET ParamNames }

\* The snapshot a build leaves for the model whose document is d: its
\* frames, its response column and ntrees.
BuiltParms(d) ==
    [p \in ParamNames \ {"model_id"} |->
        CASE p = "training_frame" ->
                Parm(None, [name |-> Key("train.hex"), URL |-> None])
          [] p = "validation_frame" ->
                Parm(None, IF d.output.validation_metrics # None
                           THEN [name |-> Key("valid.hex"), URL |-> None]
                           ELSE None)
          [] p = "response_column" -> Parm(None, [column_name |-> Key("y")])
          [] p = "ntrees" -> Parm(Num(1), Num(1))]

\* params with the two values of each parameter exchanged
params_swapped(ps) ==
    Return([p \in DOMAIN ps |-> [default |-> ps[p].actual_value,
                                 actual |-> ps[p].default_value]],
           <<>>)

\* ModelBase.params
params(ps) ==
    Return([p \in DOMAIN ps |-> [default |-> ps[p].default_value,
                                 actual |-> ps[p].actual_value]],
           <<>>)

\* default_params that lists only the parameters that have a default
default_params_non_null(ps) ==
    Return([p \in {q \in DOMAIN ps : ps[q].default_value # None} |->
                ps[p].default_value],
           <<>>)

\* ModelBase.default_params
default_params(ps) ==
    Return([p \in DOMAIN ps |-> ps[p].default_value], <<>>)

\* params_to_select
params_to_select ==
    [model_id |-> "name", response_column |-> "column_name",
     training_frame |-> "name", validation_frame |-> "name"]

\* d.get(k, None); on None there is no get
dict_get(d, k) == IF k \in DOMAIN d THEN d[k] ELSE None

\* ModelBase.actual_params: the loop stops at the first parameter whose
\* actual value has no get.
actual_params(ps) ==
    IF \E p \in DOMAIN ps : p \in DOMAIN params_to_select /\ ps[p].actual_value = None
    THEN Raise("AttributeError", <<>>)
    ELSE Return([p \in DOMAIN ps |->
                    IF p \in DOMAIN params_to_select
                    THEN dict_get(ps[p].actual_value, params_to_select[p])
                    ELSE ps[p].actual_value],
                <<>>)

\* ModelBase.full_parameters
full_parameters(ps) == Return(ps, <<>>)

-----------------------------------------------------------------------------
(* The identifier.                                                          *)

\* h2o.rapids('(rename "old" "new")') on a cluster holding `keys`: the keys
\* afterwards, or the failure.  `up` is whether the request gets through.
rapids_rename(keys, oldid, newid, up) ==
    IF up /\ oldid \in keys
    THEN [ok |-> TRUE, keys |-> (keys \ {oldid}) \cup {newid}]
    ELSE [ok |-> FALSE, keys |-> keys]

\* The model_id setter on a view whose _id is id: the view's _id afterwards,
\* the cluster's keys afterwards, and the outcome.
model_id_setter(id, keys, newid, up) ==
    LET oldid == id
        id1 == newid
        r == rapids_rename(keys, oldid, newid, up)
        call == [ev |-> "rapids", arg |-> "rename", oldid |-> oldid, newid |-> newid,
                 local_id |-> id1]
    IN  [_id |-> id1, keys |-> r.keys,
         result |-> IF r.ok THEN Return(None, <<call>>)
                    ELSE Raise("RemoteFailure", <<call>>)]

-----------------------------------------------------------------------------
(* The operations that call the cluster.  `fault` names the remote call    *)
(* that fails when it is issued ("none": no call fails).                   *)

\* An H2OFrame on the cluster.
Frame(fid) == [type |-> "H2OFrame", frame_id |-> fid, names |-> {"x1", "x2"}]

isinstance_H2OFrame(x) == x.type = "H2OFrame"

\* What a caller passes as test_data: a frame, or the frame's key as a str.
TestData == {Frame("fr1"), Key("fr1")}

\* One request to the cluster (h2o.api, H2OJob.poll, h2o.get_frame), for
\* the view's model `id`, and whether it succeeded.
Api(req, id, ok) == [ev |-> "api", arg |-> req, model |-> id, ok |-> ok]

IsDocument(mj) == mj # None

\* ModelBase.predict_leaf_node_assignment(test_data)
predict_leaf_node_assignment(id, test_data, fault) ==
    IF ~isinstance_H2OFrame(test_data)
    THEN Raise("ValueError", <<>>)
    ELSE LET post == Api("POST /3/Predictions", id, fault # "post")
             get == Api("GET /3/Frames", id, fault # "get")
         IN  IF fault = "post"
             THEN Raise("RemoteFailure", <<post>>)
             ELSE IF fault = "get"
                  THEN Raise("RemoteFailure", <<post, get>>)
                  ELSE Return(Frame("leaf_assignment"), <<post, get>>)

\* predict that posts again when the job it polls has failed
predict_retrying(mj, id, test_data, fault) ==
    IF ~isinstance_H2OFrame(test_data)
    THEN Raise("ValueError", <<>>)
    ELSE LET post == Api("POST /4/Predictions", id, fault # "post")
             poll == Api("poll", id, fault # "poll")
             get == Api("GET /3/Frames", id, fault # "get")
         IN  IF fault = "post"
             THEN Raise("RemoteFailure", <<post>>)
             ELSE IF ~IsDocument(mj)
                  THEN Raise("TypeError", <<post>>)
                  ELSE IF fault = "poll"
                       THEN Raise("RemoteFailure", <<post, poll, post, poll>>)
                       ELSE IF fault = "get"
                            THEN Raise("RemoteFailure", <<post, poll, get>>)
                            ELSE Return(Frame("prediction"), <<post, poll, get>>)

\* The job a prediction POST returns, and the frame it leaves its result in.
PredictionJob == [type |-> "H2OJob", dest_key |-> "prediction"]

\* predict fetching the result frame before it has polled the job.
predict_fetching_early(mj, id, test_data, fault) ==
    IF ~isinstance_H2OFrame(test_data)
    THEN Raise("ValueError", <<>>)
    ELSE LET j == PredictionJob
             post == Api("POST /4/Predictions", id, fault # "post")
                       @@ [frame |-> test_data.frame_id]
             poll == Api("poll", id, fault # "poll")
             get == Api("GET /3/Frames", id, fault # "get") @@ [key |-> j.dest_key]
         IN  IF fault = "post"
             THEN Raise("RemoteFailure", <<post>>)
             ELSE IF ~IsDocument(mj)
                  THEN Raise("TypeError", <<post>>)
                  ELSE IF fault = "get"
                       THEN Raise("RemoteFailure", <<post, get>>)
                       ELSE IF fault = "poll"
                            THEN Raise("RemoteFailure", <<post, get, poll>>)
                            ELSE Return(Frame(j.dest_key), <<post, get, poll>>)

\* ModelBase.predict(test_data): the job's description is built from the
\* document after the POST has been made.
predict(mj, id, test_data, fault) ==
    IF ~isinstance_H2OFrame(test_data)
    THEN Raise("ValueError", <<>>)
    ELSE LET j == PredictionJob
             post == Api("POST /4/Predictions", id, fault # "post")
                       @@ [frame |-> test_data.frame_id]
             poll == Api("poll", id, fault # "poll")
             get == Api("GET /3/Frames", id, fault # "get") @@ [key |-> j.dest_key]
         IN  IF fault = "post"
             THEN Raise("RemoteFailure", <<post>>)
             ELSE IF ~IsDocument(mj)
                  THEN Raise("TypeError", <<post>>)
                  ELSE IF fault = "poll"
                       THEN Raise("RemoteFailure", <<post, poll>>)
                       ELSE IF fault = "get"
                            THEN Raise("RemoteFailure", <<post, poll, get>>)
                            ELSE Return(Frame(j.dest_key), <<post, poll, get>>)

\* ModelBase.deepfeatures(test_data, layer): only None is turned away; any
\* other test_data is asked for its frame_id.
deepfeatures(id, test_data, fault) ==
    IF test_data = None
    THEN Raise("ValueError", <<>>)
    ELSE IF ~isinstance_H2OFrame(test_data)
         THEN Raise("AttributeError", <<>>)
         ELSE LET j == PredictionJob
                  post == Api("POST /4/Predictions", id, fault # "post")
                            @@ [frame |-> test_data.frame_id]
                  poll == Api("poll", id, fault # "poll")
                  get == Api("GET /3/Frames", id, fault # "get") @@ [key |-> j.dest_key]
              IN  IF fault = "post"
                  THEN Raise("RemoteFailure", <<post>>)
                  ELSE IF fault = "poll"
                       THEN Raise("RemoteFailure", <<post, poll>>)
                       ELSE IF fault = "get"
                            THEN Raise("RemoteFailure", <<post, poll, get>>)
                            ELSE Return(Frame(j.dest_key), <<post, poll, get>>)

\* One entry of the "model_metrics" list of a ModelMetrics response.
Scored(frame, tag) ==
    [frame |-> IF frame = "" THEN None ELSE [name |-> frame], tag |-> tag]

\* The responses of POST /3/ModelMetrics the cluster gives.
ModelMetricsResponses ==
    { <<>>,
      <<Scored("fr2", "a")>>,
      <<Scored("fr1", "a"), Scored("fr2", "b")>>,
      <<Scored("", "a"), Scored("fr2", "b"), Scored("fr1", "c"), Scored("fr1", "d")>> }

\* The loop of model_performance taking the first entry that has a frame,
\* whatever the frame.
RECURSIVE first_scored_any_frame(_, _)
first_scored_any_frame(res, fid) ==
    IF res = <<>>
    THEN None
    ELSE LET mm == Head(res)
         IN  IF mm.frame # None
             THEN mm
             ELSE first_scored_any_frame(Tail(res), fid)

\* The loop of model_performance: the first entry scored on frame fid.
RECURSIVE first_scored(_, _)
first_scored(res, fid) ==
    IF res = <<>>
    THEN None
    ELSE LET mm == Head(res)
         IN  IF mm.frame # None /\ mm.frame.name = fid
             THEN mm
             ELSE first_scored(Tail(res), fid)

\* self._metrics_class(raw_metrics, algo=...)
MetricsObject(raw, algo) == [type |-> "MetricsBase", raw |-> raw, algo |-> algo]

\* model_performance in which valid is looked at before train.
model_performance_valid_first(mj, id, test_data, train, valid, xval, fault, res) ==
    IF test_data = None
    THEN IF ~IsDocument(mj)
         THEN Raise("TypeError", <<>>)
         ELSE LET tr == (train /\ ~valid) \/ (~train /\ ~valid /\ ~xval)
              IN  IF tr
                  THEN Return(mj.output.training_metrics,
                              <<Ev("read", "training_metrics")>>)
                  ELSE IF valid
                       THEN Return(mj.output.validation_metrics,
                                   <<Ev("read", "validation_metrics")>>)
                       ELSE Return(mj.output.cross_validation_metrics,
                                   <<Ev("read", "cross_validation_metrics")>>)
    ELSE IF ~isinstance_H2OFrame(test_data)
         THEN Raise("TypeError", <<>>)
         ELSE LET post == Api("POST /3/ModelMetrics", id, fault # "post")
                          @@ [frame |-> test_data.frame_id]
              IN  IF fault = "post"
                  THEN Raise("RemoteFailure", <<post>>)
                  ELSE IF ~IsDocument(mj)
                       THEN Raise("TypeError", <<post>>)
                       ELSE Return(MetricsObject(first_scored(res, test_data.frame_id),
                                                 mj.algo),
                                   <<post>>)

\* ModelBase.model_performance(test_data, train, valid, xval).  Without
\* test_data: the stored block of the first of train, valid, xval that is
\* set (train by default).  With test_data that is no H2OFrame, line 282
\* adds a type to a str while it builds the message, which raises TypeError
\* in place of the ValueError.  The metrics class is set with the document.
model_performance(mj, id, test_data, train, valid, xval, fault, res) ==
    IF test_data = None
    THEN IF ~IsDocument(mj)
         THEN Raise("TypeError", <<>>)
         ELSE LET tr == train \/ (~train /\ ~valid /\ ~xval)
              IN  IF tr
                  THEN Return(mj.output.training_metrics,
                              <<Ev("read", "training_metrics")>>)
                  ELSE IF valid
                       THEN Return(mj.output.validation_metrics,
                                   <<Ev("read", "validation_metrics")>>)
                       ELSE Return(mj.output.cross_validation_metrics,
                                   <<Ev("read", "cross_validation_metrics")>>)
    ELSE IF ~isinstance_H2OFrame(test_data)
         THEN Raise("TypeError", <<>>)
         ELSE LET post == Api("POST /3/ModelMetrics", id, fault # "post")
                          @@ [frame |-> test_data.frame_id]
              IN  IF fault = "post"
                  THEN Raise("RemoteFailure", <<post>>)
                  ELSE IF ~IsDocument(mj)
                       THEN Raise("TypeError", <<post>>)
                       ELSE Return(MetricsObject(first_scored(res, test_data.frame_id),
                                                 mj.algo),
                                   <<post>>)

\* ModelBase.partial_plot(data, cols, plot=False)
partial_plot(id, data, cols, fault) ==
    IF ~isinstance_H2OFrame(data)
    THEN Raise("ValueError", <<>>)
    ELSE IF \E i \in 1..Len(cols) : cols[i] \notin data.names
         THEN Raise("H2OValueError", <<>>)
         ELSE LET post == Api("POST /3/PartialDependence", id, fault # "post")
                  poll == Api("poll", id, fault # "poll")
                  get == Api("GET /3/PartialDependence", id, fault # "get")
              IN  IF fault = "post"
                  THEN Raise("RemoteFailure", <<post>>)
                  ELSE IF fault = "poll"
                       THEN Raise("RemoteFailure", <<post, poll>>)
                       ELSE IF fault = "get"
                            THEN Raise("RemoteFailure", <<post, poll, get>>)
                            ELSE Return([type |-> "partial_dependence_data",
                                         cols |-> cols],
                                        <<post, poll, get>>)

\* The algorithms download_mojo accepts.
MojoAlgos == {"drf", "gbm", "deepwater", "glrm", "glm"}

\* The algo attribute of the estimator classes the model draws on.
Algos == {"gbm", "kmeans"}

\* download_mojo fetching the MOJO before the h2o-genmodel.jar.
download_mojo_jar_last(algo, id, get_genmodel_jar, fault) ==
    IF algo \notin MojoAlgos
    THEN Raise("H2OValueError", <<>>)
    ELSE LET jar == Api("GET /3/h2o-genmodel.jar", None, fault # "jar")
             mojo == Api("GET /3/Models/mojo", id, fault # "get")
             both == IF get_genmodel_jar THEN <<mojo, jar>> ELSE <<mojo>>
         IN  IF fault = "get"
             THEN Raise("RemoteFailure", <<mojo>>)
             ELSE IF get_genmodel_jar /\ fault = "jar"
                  THEN Raise("RemoteFailure", both)
                  ELSE Return(Key("model.zip"), both)

\* ModelBase.download_mojo(path, get_genmodel_jar)
download_mojo(algo, id, get_genmodel_jar, fault) ==
    IF algo \notin MojoAlgos
    THEN Raise("H2OValueError", <<>>)
    ELSE LET jar == Api("GET /3/h2o-genmodel.jar", None, fault # "jar")
             mojo == Api("GET /3/Models/mojo", id, fault # "get")
             first == IF get_genmodel_jar THEN <<jar>> ELSE <<>>
         IN  IF get_genmodel_jar /\ fault = "jar"
             THEN Raise("RemoteFailure", first)
             ELSE IF fault = "get"
                  THEN Raise("RemoteFailure", Append(first, mojo))
                  ELSE Return(Key("model.zip"), Append(first, mojo))

\* ModelBase.coef()
coef(mj) ==
    IF ~IsDocument(mj)
    THEN Raise("TypeError", <<>>)
    ELSE LET tbl == mj.output.coefficients_table
             e == <<Ev("read", "coefficients_table")>>
         IN  IF tbl = Missing
             THEN Raise("KeyError", <<>>)
             ELSE IF tbl = None
                  THEN Return(None, e)
                  ELSE Return([type |-> "dict", names |-> tbl.name,
                               version |-> tbl.version], e)

-----------------------------------------------------------------------------
(* The plots.  `has_plt` is whether matplotlib can be imported; the calls  *)
(* on pyplot are recorded in the order they are made (the calls on the     *)
(* axes between them are left out).                                        *)

\* The algorithms of the documents the plots are tried on.
PlotAlgos == {"glm", "gbm", "deeplearning", "deepwater", "kmeans"}

\* The document d of a model of algorithm a.
WithAlgo(d, a) == [d EXCEPT !.algo = a, !.algo_full_name = a]

\* The calls `names` on pyplot.
Draw(names) == [i \in 1..Len(names) |-> Ev("plt", names[i])]

\* _get_matplotlib_pyplot(server) when the import fails
NoPyplot == <<Ev("print", "matplotlib library is required for this function!")>>

\* plt.show() unless on a server
Shown(server) == IF server THEN <<>> ELSE Draw(<<"show">>)

\* ModelBase._plot(timestep="AUTO", metric, server)
_plot(mj, metric, server, has_plt) ==
    IF ~has_plt
    THEN Return(None, NoPyplot)
    ELSE LET sh == scoring_history(mj)
         IN  IF sh.outcome = "raise"
             THEN sh
             ELSE IF mj.algo = "glm"
                  THEN IF metric \notin {"AUTO", "log_likelihood", "objective"}
                       THEN Raise("H2OValueError", sh.events)
                       ELSE IF sh.value = None
                            THEN Raise("TypeError",
                                       sh.events \o Draw(<<"xlabel", "ylabel", "title">>))
                            ELSE Return(None,
                                        sh.events
                                          \o Draw(<<"xlabel", "ylabel", "title", "plot">>)
                                          \o Shown(server))
                  ELSE IF mj.algo \in {"deeplearning", "deepwater", "drf", "gbm"}
                       THEN IF sh.value = None
                            THEN Raise("TypeError", sh.events)
                            ELSE IF metric = "AUTO"
                                 THEN Raise("KeyError", sh.events)
                                 ELSE IF mj.output.validation_metrics # None
                                      THEN Return(None,
                                                  sh.events
                                                    \o Draw(<<"xlabel", "ylabel", "title",
                                                              "ylim", "plot", "plot",
                                                              "legend">>)
                                                    \o Shown(server))
                                      ELSE Return(None,
                                                  sh.events
                                                    \o Draw(<<"xlabel", "ylabel", "title",
                                                              "ylim", "plot">>)
                                                    \o Shown(server))
                       ELSE Raise("H2OValueError", sh.events)

\* ModelBase.coef_norm()
coef_norm(mj) ==
    IF ~IsDocument(mj)
    THEN Raise("TypeError", <<>>)
    ELSE LET tbl == mj.output.coefficients_table
             e == <<Ev("read", "coefficients_table")>>
         IN  IF tbl = Missing
             THEN Raise("KeyError", <<>>)
             ELSE IF tbl = None
                  THEN Return(None, e)
                  ELSE Return([type |-> "dict", names |-> tbl.name,
                               version |-> tbl.version], e)

\* ModelBase.std_coef_plot(num_of_features=None, server)
std_coef_plot(mj, server, has_plt) ==
    IF ~IsDocument(mj)
    THEN Raise("TypeError", <<>>)
    ELSE IF mj.algo # "glm"
         THEN Raise("H2OValueError", <<>>)
         ELSE IF ~has_plt
              THEN Return(None, NoPyplot)
              ELSE LET c == coef_norm(mj)
                   IN  IF c.outcome = "raise"
                       THEN c
                       ELSE IF c.value = None
                            THEN Raise("AttributeError", c.events)
                            ELSE Return(None,
                                        c.events
                                          \o Draw(<<"subplots", "barh", "yticks", "legend",
                                                    "yticks", "tick_params", "title">>)
                                          \o Shown(server))

\* ModelBase.varimp(use_pandas=False)
varimp(mj) ==
    IF ~IsDocument(mj)
    THEN Raise("TypeError", <<>>)
    ELSE LET vi == mj.output.variable_importances
         IN  IF vi # Missing /\ vi # None
             THEN Return([type |-> "list", name |-> vi.name, version |-> vi.version],
                         <<Ev("read", "variable_importances")>>)
             ELSE Return(None,
                         <<Ev("print",
                              "Warning: This model does not have variable importances")>>)

\* ModelBase.varimp_plot(num_of_features=None, server): the bars are drawn
\* before the algorithm is looked at for the title.
varimp_plot(mj, server, has_plt) ==
    IF ~has_plt
    THEN Return(None, NoPyplot)
    ELSE IF ~IsDocument(mj)
         THEN Raise("TypeError", <<>>)
         ELSE IF mj.algo = "glm"
              THEN LET p == <<Ev("print", "Variable importance does not apply to GLM")>>
                       r == std_coef_plot(mj, FALSE, has_plt)
                   IN  [r EXCEPT !.events = p \o r.events]
              ELSE LET importances == varimp(mj)
                       bars == importances.events
                                 \o Draw(<<"subplots", "barh", "yticks">>)
                   IN  IF importances.value = None
                       THEN Raise("TypeError", importances.events)
                       ELSE IF mj.algo \in {"gbm", "drf", "deeplearning"}
                            THEN Return(None, bars \o Draw(<<"title">>) \o Shown(server))
                            ELSE Raise("H2OValueError", bars)

-----------------------------------------------------------------------------
(* The state machine.                                                       *)

\* What an operation leaves in `last`.
Called(op, args, r) ==
    [op |-> op, args |-> args, future |-> _future, outcome |-> r.outcome,
     value |-> r.value, exc |-> r.exc, events |-> r.events]

Selectors(stat, train, valid, xval) ==
    [stat |-> stat, train |-> train, valid |-> valid, xval |-> xval]

NoArgs == [none |-> TRUE]

\* ModelBase.__init__
Init ==
    /\ _id = None
    /\ _model_json = None
    /\ _future = FALSE
    /\ _job = None
    /\ parms = EmptyDict
    /\ cluster = {}
    /\ last = Called("__init__", NoArgs, Return(None, <<>>))
    /\ memo = None

\* A synchronous build: the job is polled to completion, the document is
\* fetched and the view is populated.
Train ==
    \E k \in ModelIds, d \in BuiltDocuments :
        /\ ~_future
        /\ _id' = k
        /\ _model_json' = d
        /\ parms' = BuiltParms(d)
        /\ cluster' = cluster \cup {k}
        /\ last' = Called("train", NoArgs, Return(None, <<>>))
        /\ memo' = None
        /\ UNCHANGED <<_future, _job>>

\* An asynchronous build: the view holds the job handle and is Pending.
Start ==
    \E k \in ModelIds :
        /\ ~_future
        /\ _future' = TRUE
        /\ _job' = [type |-> "H2OJob", status |-> "RUNNING", dest_key |-> k]
        /\ last' = Called("start", NoArgs, Return(None, <<>>))
        /\ memo' = None
        /\ UNCHANGED <<_id, _model_json, parms, cluster>>

\* The cluster finishes the outstanding job.
JobFinish ==
    /\ _job # None
    /\ _job.status = "RUNNING"
    /\ _job' = [_job EXCEPT !.status = "DONE"]
    /\ cluster' = cluster \cup {_job.dest_key}
    /\ UNCHANGED <<_id, _model_json, _future, parms, last, memo>>

\* The caller waits for the outstanding job (a blocking poll, which returns
\* once the job is done), and the view is populated from the final document.
Join ==
    \E d \in BuiltDocuments :
        /\ _future
        /\ _job.status = "DONE"
        /\ _future' = FALSE
        /\ _id' = _job.dest_key
        /\ _model_json' = d
        /\ parms' = BuiltParms(d)
        /\ _job' = None
        /\ last' = Called("join", NoArgs, Return(None, <<Ev("call", "poll")>>))
        /\ memo' = None
        /\ UNCHANGED cluster

\* h2o.remove(model): the model is deleted on the cluster and the view's
\* identifier is cleared.
Remove ==
    /\ ~_future
    /\ _id # None
    /\ cluster' = cluster \ {_id}
    /\ _id' = None
    /\ last' = Called("remove", NoArgs, Return(None, <<>>))
    /\ memo' = None
    /\ UNCHANGED <<_model_json, _future, _job, parms>>

\* model.model_id = newid
\* The model_id setter leaving the view to wait for the rename.
SetModelId_async ==
    \E newid \in ModelIds, up \in BOOLEAN :
        LET r == model_id_setter(_id, cluster, newid, up)
        IN  /\ _id' = r._id
            /\ cluster' = r.keys
            /\ _future' = TRUE
            /\ last' = Called("model_id", [oldid |-> _id, newid |-> newid], r.result)
            /\ memo' = None
            /\ UNCHANGED <<_model_json, _job, parms>>

SetModelId ==
    \E newid \in ModelIds, up \in BOOLEAN :
        LET r == model_id_setter(_id, cluster, newid, up)
        IN  /\ _id' = r._id
            /\ cluster' = r.keys
            /\ last' = Called("model_id", [oldid |-> _id, newid |-> newid], r.result)
            /\ memo' = None
            /\ UNCHANGED <<_model_json, _future, _job, parms>>

GetMetrics ==
    \E train \in BOOLEAN, valid \in BOOLEAN, xval \in BOOLEAN :
        /\ last' = Called("_get_metrics", Selectors("", train, valid, xval),
                          _get_metrics(_model_json, train, valid, xval))
        /\ UNCHANGED <<_id, _model_json, _future, _job, parms, cluster, memo>>

\* r2(), mse(), ..., gini()
\* A metric accessor that takes the block it has read out of the document.
MetricRead_consuming ==
    \E stat \in MetricStats, train \in BOOLEAN, valid \in BOOLEAN, xval \in BOOLEAN :
        /\ last' = Called("metric", Selectors(stat, train, valid, xval),
                          metric_accessor(stat, _model_json, train, valid, xval))
        /\ _model_json' = IF IsDocument(_model_json)
                          THEN [_model_json EXCEPT !.output.training_metrics = None]
                          ELSE _model_json
        /\ UNCHANGED <<_id, _future, _job, parms, cluster, memo>>

MetricRead ==
    \E stat \in MetricStats, train \in BOOLEAN, valid \in BOOLEAN, xval \in BOOLEAN :
        /\ last' = Called("metric", Selectors(stat, train, valid, xval),
                          metric_accessor(stat, _model_json, train, valid, xval))
        /\ UNCHANGED <<_id, _model_json, _future, _job, parms, cluster, memo>>

\* A call of a metric accessor whose arguments and result the caller keeps.
MetricReadFirst ==
    \E stat \in MetricStats, train \in BOOLEAN, valid \in BOOLEAN, xval \in BOOLEAN :
        /\ last' = Called("metric", Selectors(stat, train, valid, xval),
                          metric_accessor(stat, _model_json, train, valid, xval))
        /\ memo' = last'
        /\ UNCHANGED <<_id, _model_json, _future, _job, parms, cluster>>

\* The caller makes the call it has kept once more.
MetricReadAgain ==
    /\ memo # None
    /\ last' = Called("metric_again", memo.args,
                      metric_accessor(memo.args.stat, _model_json, memo.args.train,
                                      memo.args.valid, memo.args.xval))
    /\ UNCHANGED <<_id, _model_json, _future, _job, parms, cluster, memo>>

\* The model is built again under the key the view has: the document and the
\* parameters are replaced.
Retrain ==
    \E d \in BuiltDocuments :
        /\ ~_future
        /\ _id # None
        /\ _model_json' = d
        /\ parms' = BuiltParms(d)
        /\ last' = Called("train", NoArgs, Return(None, <<>>))
        /\ memo' = None
        /\ UNCHANGED <<_id, _future, _job, cluster>>

\* residual_deviance(), ..., null_degrees_of_freedom()
DevianceRead ==
    \E stat \in DevianceStats, train \in BOOLEAN, valid \in BOOLEAN, xval \in BOOLEAN :
        /\ last' = Called("deviance", Selectors(stat, train, valid, xval),
                          deviance_accessor(stat, _model_json, train, valid, xval))
        /\ UNCHANGED <<_id, _model_json, _future, _job, parms, cluster, memo>>

Summary ==
    /\ last' = Called("summary", NoArgs, summary(_model_json))
    /\ UNCHANGED <<_id, _model_json, _future, _job, parms, cluster, memo>>

ScoringHistory ==
    /\ last' = Called("scoring_history", NoArgs, scoring_history(_model_json))
    /\ UNCHANGED <<_id, _model_json, _future, _job, parms, cluster, memo>>

Show ==
    /\ last' = Called("show", NoArgs, show(_future, _model_json, _id))
    /\ UNCHANGED <<_id, _model_json, _future, _job, parms, cluster, memo>>

Params ==
    /\ last' = Called("params", NoArgs, params(parms))
    /\ UNCHANGED <<_id, _model_json, _future, _job, parms, cluster, memo>>

DefaultParams ==
    /\ last' = Called("default_params", NoArgs, default_params(parms))
    /\ UNCHANGED <<_id, _model_json, _future, _job, parms, cluster, memo>>

ActualParams ==
    /\ last' = Called("actual_params", NoArgs, actual_params(parms))
    /\ UNCHANGED <<_id, _model_json, _future, _job, parms, cluster, memo>>

FullParameters ==
    /\ last' = Called("full_parameters", NoArgs, full_parameters(parms))
    /\ UNCHANGED <<_id, _model_json, _future, _job, parms, cluster, memo>>

PredictLeafNodeAssignment ==
    \E test_data \in TestData, fault \in {"none", "post", "get"} :
        /\ last' = Called("predict_leaf_node_assignment",
                          [test_data |-> test_data, fault |-> fault],
                          predict_leaf_node_assignment(_id, test_data, fault))
        /\ UNCHANGED <<_id, _model_json, _future, _job, parms, cluster, memo>>

Predict ==
    \E test_data \in TestData, fault \in {"none", "post", "poll", "get"} :
        /\ last' = Called("predict", [test_data |-> test_data, fault |-> fault],
                          predict(_model_json, _id, test_data, fault))
        /\ UNCHANGED <<_id, _model_json, _future, _job, parms, cluster, memo>>

Deepfeatures ==
    \E test_data \in TestData \cup {None}, fault \in {"none", "post", "poll", "get"} :
        /\ last' = Called("deepfeatures", [test_data |-> test_data, fault |-> fault],
                          deepfeatures(_id, test_data, fault))
        /\ UNCHANGED <<_id, _model_json, _future, _job, parms, cluster, memo>>

\* model_performance() of the stored metrics
ModelPerformanceStored ==
    \E train \in BOOLEAN, valid \in BOOLEAN, xval \in BOOLEAN :
        /\ last' = Called("model_performance",
                          [test_data |-> None, train |-> train, valid |-> valid,
                           xval |-> xval, fault |-> "none", res |-> <<>>],
                          model_performance(_model_json, _id, None, train, valid,
                                            xval, "none", <<>>))
        /\ UNCHANGED <<_id, _model_json, _future, _job, parms, cluster, memo>>

\* model_performance(test_data), with no flag set or with all three
ModelPerformance ==
    \E test_data \in TestData, flags \in BOOLEAN, fault \in {"none", "post"},
       res \in ModelMetricsResponses :
        /\ last' = Called("model_performance",
                          [test_data |-> test_data, train |-> flags, valid |-> flags,
                           xval |-> flags, fault |-> fault, res |-> res],
                          model_performance(_model_json, _id, test_data, flags,
                                            flags, flags, fault, res))
        /\ UNCHANGED <<_id, _model_json, _future, _job, parms, cluster, memo>>

PartialPlot ==
    \E data \in TestData, cols \in {<<"x1">>, <<"x1", "zz">>},
       fault \in {"none", "post", "poll", "get"} :
        /\ last' = Called("partial_plot",
                          [test_data |-> data, cols |-> cols, fault |-> fault],
                          partial_plot(_id, data, cols, fault))
        /\ UNCHANGED <<_id, _model_json, _future, _job, parms, cluster, memo>>

DownloadMojo ==
    \E algo \in Algos, get_genmodel_jar \in BOOLEAN, fault \in {"none", "jar", "get"} :
        /\ last' = Called("download_mojo",
                          [algo |-> algo, get_genmodel_jar |-> get_genmodel_jar,
                           fault |-> fault],
                          download_mojo(algo, _id, get_genmodel_jar, fault))
        /\ UNCHANGED <<_id, _model_json, _future, _job, parms, cluster, memo>>

\* coef() taking the coefficients table out of the document.
Coef_consuming ==
    /\ last' = Called("coef", NoArgs, coef(_model_json))
    /\ _model_json' = IF IsDocument(_model_json)
                      THEN [_model_json EXCEPT !.output.coefficients_table = None]
                      ELSE _model_json
    /\ UNCHANGED <<_id, _future, _job, parms, cluster, memo>>

Coef ==
    /\ last' = Called("coef", NoArgs, coef(_model_json))
    /\ UNCHANGED <<_id, _model_json, _future, _job, parms, cluster, memo>>

Plot ==
    \E metric \in {"AUTO", "rmse"}, server \in BOOLEAN, has_plt \in BOOLEAN :
        /\ last' = Called("_plot",
                          [metric |-> metric, server |-> server, has_plt |-> has_plt],
                          _plot(_model_json, metric, server, has_plt))
        /\ UNCHANGED <<_id, _model_json, _future, _job, parms, cluster, memo>>

VarimpPlot ==
    \E server \in BOOLEAN, has_plt \in BOOLEAN :
        /\ last' = Called("varimp_plot", [server |-> server, has_plt |-> has_plt],
                          varimp_plot(_model_json, server, has_plt))
        /\ UNCHANGED <<_id, _model_json, _future, _job, parms, cluster, memo>>

StdCoefPlot ==
    \E server \in BOOLEAN, has_plt \in BOOLEAN :
        /\ last' = Called("std_coef_plot", [server |-> server, has_plt |-> has_plt],
                          std_coef_plot(_model_json, server, has_plt))
        /\ UNCHANGED <<_id, _model_json, _future, _job, parms, cluster, memo>>

Next ==
    \/ Train
    \/ Start
    \/ JobFinish
    \/ Join
    \/ Remove
    \/ SetModelId
    \/ GetMetrics
    \/ MetricRead
    \/ DevianceRead
    \/ Summary
    \/ ScoringHistory
    \/ Show

Spec == Init /\ [][Next]_vars

\* The reads, on a view that was never built or on a Ready view holding any
\* document.
InitReads ==
    /\ \/ /\ _id = None
          /\ _model_json = None
          /\ parms = EmptyDict
          /\ cluster = {}
       \/ /\ _id = Key("modelA")
          /\ _model_json \in Documents
          /\ parms = BuiltParms(_model_json)
          /\ cluster = {Key("modelA")}
    /\ _future = FALSE
    /\ _job = None
    /\ last = Called("__init__", NoArgs, Return(None, <<>>))
    /\ memo = None

NextReads ==
    \/ GetMetrics
    \/ MetricRead
    \/ DevianceRead
    \/ Summary
    \/ ScoringHistory
    \/ Show
    \/ Coef
    \/ Params
    \/ DefaultParams
    \/ ActualParams
    \/ FullParameters
    \/ ModelPerformanceStored
    \/ ModelPerformance

SpecReads == InitReads /\ [][NextReads]_vars

\* The parameter views, on a Ready view holding any snapshot.
InitParams ==
    /\ _id = Key("modelA")
    /\ _model_json \in BuiltDocuments
    /\ _future = FALSE
    /\ _job = None
    /\ parms \in ParmsSnapshots
    /\ cluster = {Key("modelA")}
    /\ last = Called("__init__", NoArgs, Return(None, <<>>))
    /\ memo = None

NextParams ==
    \/ Params
    \/ DefaultParams
    \/ ActualParams
    \/ FullParameters

SpecParams == InitParams /\ [][NextParams]_vars

\* The lifecycle with the operations that call the cluster, the display,
\* the table reads and the parameter views.
NextRemote ==
    \/ Train
    \/ Start
    \/ JobFinish
    \/ Join
    \/ Remove
    \/ SetModelId
    \/ GetMetrics
    \/ Summary
    \/ ScoringHistory
    \/ Show
    \/ Coef
    \/ Params
    \/ DefaultParams
    \/ ActualParams
    \/ FullParameters
    \/ PredictLeafNodeAssignment
    \/ Predict
    \/ Deepfeatures
    \/ ModelPerformanceStored
    \/ ModelPerformance
    \/ PartialPlot
    \/ DownloadMojo

SpecRemote == Init /\ [][NextRemote]_vars

\* Repeated metric reads on a Ready view, with other reads and rebuilds
\* between them.
InitTwice ==
    /\ _id = Key("modelA")
    /\ _model_json \in BuiltDocuments
    /\ _future = FALSE
    /\ _job = None
    /\ parms = BuiltParms(_model_json)
    /\ cluster = {Key("modelA")}
    /\ last = Called("__init__", NoArgs, Return(None, <<>>))
    /\ memo = None

NextTwice ==
    \/ MetricReadFirst
    \/ MetricReadAgain
    \/ MetricRead
    \/ Summary
    \/ ScoringHistory
    \/ Show
    \/ Retrain

SpecTwice == InitTwice /\ [][NextTwice]_vars

\* The plots, on a view holding the document of a model of any algorithm,
\* or no document.
InitPlots ==
    /\ \/ /\ _id = None
          /\ _model_json = None
          /\ parms = EmptyDict
          /\ cluster = {}
       \/ /\ _id = Key("modelA")
          /\ _model_json \in {WithAlgo(d, a) : d \in Documents, a \in PlotAlgos}
          /\ parms = BuiltParms(_model_json)
          /\ cluster = {Key("modelA")}
    /\ _future = FALSE
    /\ _job = None
    /\ last = Called("__init__", NoArgs, Return(None, <<>>))
    /\ memo = None

NextPlots ==
    \/ Plot
    \/ VarimpPlot
    \/ StdCoefPlot

SpecPlots == InitPlots /\ [][NextPlots]_vars

-----------------------------------------------------------------------------
(* Properties.                                                              *)

Args == last.args

\* output[...] of the role named k in a _get_metrics mapping
RoleBlock(mj, k) ==
    CASE k = "train" -> mj.output.training_metrics
      [] k = "valid" -> mj.output.validation_metrics
      [] k = "xval" -> mj.output.cross_validation_metrics

\* The roles the selectors ask for, or train when they ask for none.
Requested(train, valid, xval) ==
    IF ~train /\ ~valid /\ ~xval
    THEN {"train"}
    ELSE {k \in Roles : \/ k = "train" /\ train
                        \/ k = "valid" /\ valid
                        \/ k = "xval" /\ xval}

HasEvent(e) == \E i \in 1..Len(last.events) : last.events[i] = e

RapidsCalls == SelectSeq(last.events, LAMBDA e : e.ev = "rapids")

\* C1: on a view holding a document, _get_metrics returns a mapping whose
\* keys are exactly the requested roles ({train} when none is requested), and
\* each key maps to that role's block of the document.
C1_GetMetricsKeys ==
    (last.op = "_get_metrics" /\ _model_json # None) =>
        /\ last.outcome = "return"
        /\ DOMAIN last.value = Requested(Args.train, Args.valid, Args.xval)
        /\ \A k \in DOMAIN last.value : last.value[k] = RoleBlock(_model_json, k)

C1_Witness ==
    /\ last.op = "_get_metrics"
    /\ Args.train /\ ~Args.valid /\ Args.xval
    /\ last.outcome = "return"
    /\ DOMAIN last.value = {"train", "xval"}
    /\ last.value["train"] # None
    /\ last.value["xval"] = None

\* C2: a rename of model A to B issues exactly one remote rename call, of A to
\* B, and when that call is issued the local identifier is still A.
C2_RemoteRenameBeforeLocal ==
    (last.op = "model_id" /\ Args.oldid \in ModelIds) =>
        /\ Len(RapidsCalls) = 1
        /\ RapidsCalls[1].oldid = Args.oldid
        /\ RapidsCalls[1].newid = Args.newid
        /\ RapidsCalls[1].local_id = Args.oldid

\* C3: after a rename of model A whose remote call failed, the local
\* identifier is still A.
C3_FailedRenameKeepsId ==
    (last.op = "model_id" /\ Args.oldid \in ModelIds /\ last.outcome = "raise") =>
        _id = Args.oldid

\* C4: a metrics read on a Pending view polls the job to completion before it
\* reads the document, and returns a value.
C4_PendingMetricReadBlocks ==
    (last.op = "metric" /\ last.future) =>
        /\ \E i \in 1..Len(last.events) :
              /\ last.events[i] = Ev("call", "poll")
              /\ \A j \in 1..(i - 1) : last.events[j].ev # "read"
        /\ last.outcome = "return"

\* C5: show() on a Pending view makes exactly one call, job.poll_once(), and
\* returns: it raises nothing, does not poll to completion, and neither reads
\* nor prints any part of the document.
C5_PendingShowPollsOnce ==
    (last.op = "show" /\ last.future) =>
        /\ last.outcome = "return"
        /\ last.events = <<Ev("call", "poll_once")>>

C5_Witness ==
    /\ last.op = "show"
    /\ last.future
    /\ _job # None
    /\ _job.status = "RUNNING"
    /\ _model_json # None
    /\ last.events = <<Ev("call", "poll_once")>>

\* C6: a deviance / degrees-of-freedom accessor called with xval true raises
\* H2OValueError whatever train and valid are, before it reads anything of the
\* document.
C6_DevianceXvalUnsupported ==
    (last.op = "deviance" /\ Args.xval) =>
        /\ last.outcome = "raise"
        /\ last.exc = "H2OValueError"
        /\ last.events = <<>>

C6_Witness ==
    /\ last.op = "deviance"
    /\ Args.xval /\ Args.train /\ Args.valid
    /\ _model_json # None
    /\ _model_json.output.cross_validation_metrics # None
    /\ last.exc = "H2OValueError"

\* The block a deviance accessor is to use: training when train is true or
\* when neither is, validation only when valid is true and train is not.
DevianceBlock(train, valid) ==
    IF train \/ ~valid THEN "training_metrics" ELSE "validation_metrics"

\* C7: with xval false a deviance / degrees-of-freedom accessor uses exactly
\* one block, the training block unless valid is true and train is false, and
\* its result is that block's statistic, never a role mapping; a general
\* accessor called with train and valid returns a mapping with both roles.
C7_DevianceSingleRole ==
    /\ (last.op = "deviance" /\ ~Args.xval /\ _model_json # None) =>
          LET b == DevianceBlock(Args.train, Args.valid)
          IN  /\ last.events = <<Ev("read", "output"), Ev("read", b)>>
              /\ ~IsDict(last.value)
              /\ _model_json.output[b] # None =>
                    /\ last.outcome = "return"
                    /\ last.value = StatValue(_model_json.output[b], Args.stat)
              /\ last.outcome = "raise" => _model_json.output[b] = None
    /\ (last.op = "metric" /\ Args.train /\ Args.valid /\ ~Args.xval
            /\ _model_json # None) =>
          /\ IsDict(last.value)
          /\ DOMAIN last.value = {"train", "valid"}

C7_Witness ==
    /\ last.op = "deviance"
    /\ Args.train /\ Args.valid /\ ~Args.xval
    /\ _model_json # None
    /\ _model_json.output.validation_metrics # None
    /\ last.outcome = "return"
    /\ last.value = StatValue(_model_json.output.training_metrics, Args.stat)

\* The statistic `stat` of block v, None for a block that is None.
Expected(v, stat) == IF v = None THEN None ELSE StatValue(v, stat)

\* C8: on a view holding a document, a metric-scalar accessor returns the
\* value itself when exactly one role is resolved, and otherwise a mapping
\* keyed by exactly the resolved roles.
C8_ScalarOrMapping ==
    (last.op = "metric" /\ _model_json # None) =>
        LET R == Requested(Args.train, Args.valid, Args.xval)
        IN  /\ last.outcome = "return"
            /\ IF Cardinality(R) = 1
               THEN /\ ~IsDict(last.value)
                    /\ \A k \in R :
                          last.value = Expected(RoleBlock(_model_json, k), Args.stat)
               ELSE /\ IsDict(last.value)
                    /\ DOMAIN last.value = R
                    /\ \A k \in R :
                          last.value[k] = Expected(RoleBlock(_model_json, k), Args.stat)

C8_Witness ==
    /\ last.op = "metric"
    /\ Args.stat = "gini"
    /\ ~Args.train /\ Args.valid /\ ~Args.xval
    /\ _model_json # None
    /\ _model_json.output.validation_metrics # None
    /\ last.value = StatValue(_model_json.output.validation_metrics, "gini")

\* C9: in a metric-scalar accessor a resolved role whose block is None maps to
\* None and nothing is raised; with the training block present and the
\* validation block None, mse() is the training value, mse(valid=True) is None
\* and mse(train=True, valid=True) is {train: value, valid: None}.
C9_AbsentBlockIsNone ==
    (last.op = "metric" /\ _model_json # None) =>
        LET out == _model_json.output
            R == Requested(Args.train, Args.valid, Args.xval)
        IN  /\ last.outcome = "return"
            /\ \A k \in R :
                  RoleBlock(_model_json, k) = None =>
                      IF IsDict(last.value) THEN last.value[k] = None
                      ELSE last.value = None
            /\ (Args.stat = "mse" /\ out.training_metrics # None
                    /\ out.validation_metrics = None /\ ~Args.xval) =>
                  /\ (~Args.train /\ ~Args.valid) =>
                        last.value = StatValue(out.training_metrics, "mse")
                  /\ (~Args.train /\ Args.valid) => last.value = None
                  /\ (Args.train /\ Args.valid) =>
                        last.value = [train |-> StatValue(out.training_metrics, "mse"),
                                      valid |-> None]

C9_Witness ==
    /\ last.op = "metric"
    /\ Args.stat = "mse"
    /\ Args.train /\ Args.valid /\ ~Args.xval
    /\ _model_json # None
    /\ _model_json.output.training_metrics # None
    /\ _model_json.output.validation_metrics = None
    /\ last.outcome = "return"
    /\ last.value = [train |-> StatValue(_model_json.output.training_metrics, "mse"),
                     valid |-> None]

\* The derived reads.
ReadOps == {"show", "summary", "scoring_history", "_get_metrics", "metric", "deviance"}

\* C10: on a view with no document and no job pending, a derived read raises
\* no null-reference error (TypeError, AttributeError): it reports that the
\* model is not available, by a message or by a descriptive error.
C10_AbsentDocumentFailsFast ==
    (last.op \in ReadOps /\ _model_json = None /\ ~last.future) =>
        /\ last.exc \notin {"TypeError", "AttributeError"}
        /\ \/ last.outcome = "raise"
           \/ \E i \in 1..Len(last.events) : last.events[i].ev = "print"

-----------------------------------------------------------------------------
(* The parameter views (spec section 4.2). *)

ParamViews == {"params", "default_params", "actual_params", "full_parameters"}

\* C13: params pairs, for every parameter p of the snapshot, the default that
\* default_params gives for p with the actual value the snapshot holds for p,
\* and full_parameters carries the same two values for p.
C13_ParamsPairsDefaultAndActual ==
    (last.op = "params") =>
        /\ last.outcome = "return"
        /\ DOMAIN last.value = DOMAIN parms
        /\ \A p \in DOMAIN parms :
            /\ last.value[p] = [default |-> default_params(parms).value[p],
                                actual |-> parms[p].actual_value]
            /\ full_parameters(parms).value[p].default_value = last.value[p].default
            /\ full_parameters(parms).value[p].actual_value = last.value[p].actual

C13_Witness ==
    /\ last.op = "params"
    /\ last.outcome = "return"
    /\ {"ntrees", "training_frame"} \subseteq DOMAIN parms
    /\ parms["ntrees"].actual_value # parms["ntrees"].default_value
    /\ last.value["ntrees"].actual = Num(MaxTrees)

\* The sub-field k of a reference, None when there is none.
SubField(a, k) == IF a = None THEN None ELSE IF k \in DOMAIN a THEN a[k] ELSE None

\* C14: actual_params returns, for model_id, training_frame and
\* validation_frame, the "name" sub-field of the actual value, for
\* response_column its "column_name" sub-field (None when there is no such
\* sub-field), and the raw actual value for every other parameter.
C14_ActualParamsUnwrapsReferences ==
    (last.op = "actual_params") =>
        /\ last.outcome = "return"
        /\ DOMAIN last.value = DOMAIN parms
        /\ \A p \in DOMAIN parms :
            last.value[p] =
                IF p \in {"model_id", "training_frame", "validation_frame"}
                THEN SubField(parms[p].actual_value, "name")
                ELSE IF p = "response_column"
                     THEN SubField(parms[p].actual_value, "column_name")
                     ELSE parms[p].actual_value

-----------------------------------------------------------------------------
(* The view after its model is gone, readiness, and the cluster calls      *)
(* (spec sections 4.3, 6 and 7).                                           *)

\* C11: on a view whose identifier was cleared when its model was deleted,
\* a read (a metric or deviance accessor, summary, scoring_history, show)
\* fails or reports the removal: it returns nothing and reads nothing of the
\* document the view still holds.
C11_RemovedViewReadsFail ==
    (last.op \in ReadOps /\ _id = None /\ IsDocument(_model_json) /\ ~last.future) =>
        \/ last.outcome = "raise"
        \/ /\ last.value = None
           /\ \A i \in 1..Len(last.events) : last.events[i].ev # "read"

\* The operations of ModelBase that call the cluster.
RemoteOps == {"model_id", "predict", "predict_leaf_node_assignment", "deepfeatures",
              "model_performance", "partial_plot", "download_mojo"}

\* The operations of ModelBase.
ModelBaseOps == ReadOps \cup ParamViews \cup RemoteOps \cup {"coef"}

\* C12: a step of an operation of ModelBase (the rename, show, an accessor,
\* a parameter view, predict, model_performance, partial_plot, a download)
\* taken on a Ready view leaves the view Ready.
C12_ReadyStaysReady ==
    [][(~_future /\ last'.op \in ModelBaseOps) => ~_future']_vars

C12_Witness ==
    /\ last.op = "predict"
    /\ last.outcome = "return"
    /\ ~last.future
    /\ ~_future
    /\ _job = None
    /\ IsDocument(_model_json)
    /\ _id = Key("modelB")

\* The requests of the last operation to the cluster, in order.
Requests == SelectSeq(last.events, LAMBDA e : e.ev \in {"api", "rapids"})

\* C16: predict, predict_leaf_node_assignment, model_performance and
\* partial_plot given a test_data that is no H2OFrame, and partial_plot given
\* a column its frame does not have, raise the invalid-argument error
\* (ValueError, H2OValueError) and send no request to the cluster.
C16_ValidationPrecedesNetwork ==
    (/\ last.op \in {"predict", "predict_leaf_node_assignment", "model_performance",
                     "partial_plot"}
     /\ Args.test_data # None
     /\ \/ ~isinstance_H2OFrame(Args.test_data)
        \/ /\ last.op = "partial_plot"
           /\ \E i \in 1..Len(Args.cols) : Args.cols[i] \notin Args.test_data.names) =>
        /\ last.outcome = "raise"
        /\ last.exc \in {"ValueError", "H2OValueError"}
        /\ Requests = <<>>

\* C17: an operation sends each of its requests (the rename, the prediction
\* POST, the model-metrics POST, the partial-dependence POST, the MOJO and
\* jar GETs, the polls and fetches that follow them) at most once, and a
\* request that fails is the last thing the operation does: the failure is
\* raised to the caller and no further request is sent.
C17_NoRetryNoSwallow ==
    (last.op \in RemoteOps) =>
        /\ \A i \in 1..Len(Requests) : \A j \in 1..Len(Requests) :
              (i # j) => (Requests[i].arg # Requests[j].arg)
        /\ \A i \in 1..Len(last.events) :
              (last.events[i].ev = "api" /\ ~last.events[i].ok) =>
                  /\ i = Len(last.events)
                  /\ last.outcome = "raise"
                  /\ last.exc = "RemoteFailure"
        /\ (last.op = "model_id") => (Len(Requests) = Len(<<"rename">>))
        /\ (last.exc = "RemoteFailure") => (Requests # <<>>)

C17_Witness ==
    /\ last.op = "predict"
    /\ Args.fault = "poll"
    /\ last.exc = "RemoteFailure"
    /\ Len(Requests) = Len(<<"post", "poll">>)

\* The reads of ModelBase: the accessors, the table reads, the display, the
\* parameter views, model_performance and coef.
Reads == ReadOps \cup ParamViews \cup {"model_performance", "coef"}

\* C18: a read (a metric or deviance accessor, a parameter view, summary,
\* scoring_history, show, model_performance, coef) leaves the identifier, the
\* document, the parameters snapshot and the readiness as they were.
C18_ReadsLeaveTheViewUnchanged ==
    [][(last'.op \in Reads /\ last' # last) =>
            UNCHANGED <<_id, _model_json, parms, _future, _job>>]_vars

C18_Witness ==
    /\ last.op = "coef"
    /\ last.outcome = "return"
    /\ last.value # None
    /\ _model_json.output.coefficients_table # None
    /\ _model_json.output.coefficients_table # Missing

\* C19: each of the ten metric accessors resolves its roles as _get_metrics
\* does: it raises where _get_metrics raises, returns one value where
\* _get_metrics returns one role and otherwise a mapping with the keys of
\* _get_metrics, each value being the accessor's statistic of the block
\* _get_metrics gives for that role; so the ten agree in shape and keys.
C19_AccessorsResolveAsGetMetrics ==
    (last.op = "metric") =>
        LET tm == _get_metrics(_model_json, Args.train, Args.valid, Args.xval)
        IN  /\ last.outcome = tm.outcome
            /\ (tm.outcome = "return") =>
                  IF Cardinality(DOMAIN tm.value) = 1
                  THEN \A k \in DOMAIN tm.value :
                          last.value = Expected(tm.value[k], Args.stat)
                  ELSE /\ IsDict(last.value)
                       /\ DOMAIN last.value = DOMAIN tm.value
                       /\ \A k \in DOMAIN tm.value :
                             last.value[k] = Expected(tm.value[k], Args.stat)
            /\ \A stat \in MetricStats :
                  LET other == metric_accessor(stat, _model_json, Args.train,
                                               Args.valid, Args.xval)
                  IN  /\ other.outcome = last.outcome
                      /\ IsDict(other.value) = IsDict(last.value)
                      /\ IsDict(other.value) => (DOMAIN other.value = DOMAIN last.value)

C19_Witness ==
    /\ last.op = "metric"
    /\ Args.stat = "aic"
    /\ Args.valid /\ Args.xval /\ ~Args.train
    /\ last.outcome = "return"
    /\ DOMAIN last.value = {"valid", "xval"}
    /\ last.value["valid"] # None

\* C20: a metric accessor called again with the arguments of an earlier
\* call, with no rename and no replacement of the document since, returns
\* what the earlier call returned (or raises what it raised), whatever reads
\* were made between the two calls.
C20_MetricReadsRepeat ==
    (memo # None /\ last.op \in {"metric", "metric_again"} /\ last.args = memo.args) =>
        /\ last.outcome = memo.outcome
        /\ last.value = memo.value
        /\ last.exc = memo.exc

C20_Witness ==
    /\ memo # None
    /\ last.op = "metric_again"
    /\ last.args = memo.args
    /\ last.args.train /\ last.args.valid
    /\ last.outcome = "return"
    /\ last.value = memo.value
    /\ last.value["valid"] # None

-----------------------------------------------------------------------------
(* Absence, plotting, and the order of the cluster calls (spec sections    *)
(* 4.1, 6 and 7).                                                          *)

\* C21: with xval false, a deviance / degrees-of-freedom accessor whose
\* block (the validation block for valid=True, else the training block) is
\* None in the document returns None and raises nothing.
C21_AbsentDevianceIsNone ==
    (/\ last.op = "deviance"
     /\ ~Args.xval
     /\ IsDocument(_model_json)
     /\ _model_json.output[DevianceBlock(Args.train, Args.valid)] = None) =>
        /\ last.outcome = "return"
        /\ last.value = None

\* The algorithms a plot is implemented for.
PlotSupports(op) ==
    CASE op = "_plot" -> {"glm", "deeplearning", "deepwater", "drf", "gbm"}
      [] op = "varimp_plot" -> {"glm", "gbm", "drf", "deeplearning"}
      [] op = "std_coef_plot" -> {"glm"}

\* C22: with pyplot at hand, _plot, varimp_plot and std_coef_plot on the
\* document of an algorithm they are not implemented for (a document that
\* has variable importances, for varimp_plot) raise H2OValueError and have
\* made no call on pyplot.
C22_UnsupportedPlotRaisesBeforeDrawing ==
    (/\ last.op \in {"_plot", "varimp_plot", "std_coef_plot"}
     /\ Args.has_plt
     /\ IsDocument(_model_json)
     /\ _model_json.algo \notin PlotSupports(last.op)
     /\ (last.op = "varimp_plot") =>
            /\ _model_json.output.variable_importances # Missing
            /\ _model_json.output.variable_importances # None) =>
        /\ last.outcome = "raise"
        /\ last.exc = "H2OValueError"
        /\ \A i \in 1..Len(last.events) : last.events[i].ev # "plt"

\* The block model_performance() gives for the flags: training if train is
\* set or no flag is, else validation if valid is set, else cross-validation.
StoredBlock(mj, train, valid, xval) ==
    IF train \/ (~train /\ ~valid /\ ~xval)
    THEN mj.output.training_metrics
    ELSE IF valid THEN mj.output.validation_metrics
         ELSE mj.output.cross_validation_metrics

\* C23: model_performance without test_data, on a view holding a document,
\* sends no request and returns one block, the one the fixed priority
\* train, valid, xval picks (training when no flag is set), never a mapping
\* of roles.
C23_StoredPerformanceByPriority ==
    (last.op = "model_performance" /\ Args.test_data = None /\ IsDocument(_model_json)) =>
        /\ last.outcome = "return"
        /\ Requests = <<>>
        /\ ~IsDict(last.value)
        /\ last.value = StoredBlock(_model_json, Args.train, Args.valid, Args.xval)

C23_Witness ==
    /\ last.op = "model_performance"
    /\ Args.test_data = None
    /\ Args.train /\ Args.valid /\ Args.xval
    /\ IsDocument(_model_json)
    /\ _model_json.output.validation_metrics # None
    /\ _model_json.output.cross_validation_metrics # None
    /\ last.value # None
    /\ last.value = _model_json.output.training_metrics

\* The requests predict and deepfeatures make for test_data, in order.
PredictionPost == Api("POST /4/Predictions", _id, TRUE) @@ [frame |-> Args.test_data.frame_id]

PredictionPoll == Api("poll", _id, TRUE)

PredictionFetch == Api("GET /3/Frames", _id, TRUE) @@ [key |-> PredictionJob.dest_key]

\* C24: predict (and deepfeatures) given a frame sends one prediction POST
\* for the view's model id and the frame's id, then polls the job the POST
\* returned, then fetches the frame named by the job's dest_key, in that
\* order: the fetch is made only after a POST and a poll that succeeded, so
\* never when either of them fails, and the frame fetched is what is returned.
C24_PredictPostPollFetch ==
    (last.op \in {"predict", "deepfeatures"} /\ isinstance_H2OFrame(Args.test_data)) =>
        /\ Len(Requests) <= Len(<<"post", "poll", "fetch">>)
        /\ Requests # <<>>
        /\ [Requests[1] EXCEPT !.ok = TRUE] = PredictionPost
        /\ \A i \in 1..Len(Requests) :
              /\ (Requests[i].arg = "poll") =>
                    /\ i > 1
                    /\ Requests[i - 1].arg = "POST /4/Predictions"
                    /\ Requests[i - 1].ok
              /\ (Requests[i].arg = "GET /3/Frames") =>
                    /\ i > 1
                    /\ [Requests[i] EXCEPT !.ok = TRUE] = PredictionFetch
                    /\ Requests[i - 1] = PredictionPoll
        /\ (last.outcome = "return") =>
              /\ Requests = <<PredictionPost, PredictionPoll, PredictionFetch>>
              /\ last.value = Frame(PredictionJob.dest_key)
        /\ (Args.fault \in {"post", "poll"}) =>
              \A i \in 1..Len(Requests) : Requests[i].arg # "GET /3/Frames"

C24_Witness ==
    /\ last.op = "predict"
    /\ isinstance_H2OFrame(Args.test_data)
    /\ Args.fault = "get"
    /\ last.exc = "RemoteFailure"
    /\ Requests = <<PredictionPost, PredictionPoll, [PredictionFetch EXCEPT !.ok = FALSE]>>

\* An entry of a ModelMetrics response that was scored on frame fid.
ScoredOn(mm, fid) == mm.frame # None /\ mm.frame.name = fid

\* C25: model_performance given a frame, on a view holding a document, sends
\* exactly one model-metrics POST, for the view's model id and the frame's
\* id, whatever the flags; when the POST succeeds it returns the metrics
\* object built from the first entry of the response scored on that frame
\* (never an entry of another frame or without a frame), built from None
\* when there is no such entry, and the same whatever the flags.
C25_PerformanceOnFrame ==
    (/\ last.op = "model_performance"
     /\ isinstance_H2OFrame(Args.test_data)
     /\ IsDocument(_model_json)) =>
        LET fid == Args.test_data.frame_id
            res == Args.res
            post == Api("POST /3/ModelMetrics", _id, Args.fault = "none") @@ [frame |-> fid]
        IN  /\ Requests = <<post>>
            /\ (Args.fault = "none") =>
                  /\ last.outcome = "return"
                  /\ last.value.type = "MetricsBase"
                  /\ last.value.algo = _model_json.algo
                  /\ IF \E i \in 1..Len(res) : ScoredOn(res[i], fid)
                     THEN \E i \in 1..Len(res) :
                             /\ ScoredOn(res[i], fid)
                             /\ \A j \in 1..(i - 1) : ~ScoredOn(res[j], fid)
                             /\ last.value.raw = res[i]
                     ELSE last.value.raw = None
                  /\ last.value = model_performance(_model_json, _id, Args.test_data,
                                                    ~Args.train, ~Args.valid, ~Args.xval,
                                                    Args.fault, res).value

C25_Witness ==
    /\ last.op = "model_performance"
    /\ isinstance_H2OFrame(Args.test_data)
    /\ Args.train /\ Args.valid /\ Args.xval
    /\ last.outcome = "return"
    /\ Len(Args.res) > Len(<<"null", "other">>)
    /\ last.value.raw = Scored("fr1", "c")

\* The positions of the requests of the last call sent to req.
RequestsTo(req) == {i \in 1..Len(Requests) : Requests[i].arg = req}

\* C26: download_mojo of a model whose algorithm has no MOJO raises
\* H2OValueError without any request; otherwise the h2o-genmodel.jar GET is
\* sent exactly when get_genmodel_jar is set and only as the first request,
\* the MOJO GET comes after it, at most once and exactly once unless the jar
\* GET failed, and names the view's model id; nothing else is requested.
C26_MojoRequests ==
    (last.op = "download_mojo") =>
        LET jars == RequestsTo("GET /3/h2o-genmodel.jar")
            mojos == RequestsTo("GET /3/Models/mojo")
        IN  IF Args.algo \notin MojoAlgos
            THEN /\ last.outcome = "raise"
                 /\ last.exc = "H2OValueError"
                 /\ Requests = <<>>
            ELSE /\ jars = (IF Args.get_genmodel_jar THEN {1} ELSE {})
                 /\ mojos \subseteq {Cardinality(jars) + 1}
                 /\ jars \cup mojos = 1..Len(Requests)
                 /\ (mojos = {}) <=> (Args.get_genmodel_jar /\ Args.fault = "jar")
                 /\ \A i \in mojos : Requests[i].model = _id
                 /\ (last.outcome = "return") <=> (Args.fault = "none" \/
                                                   (Args.fault = "jar" /\ ~Args.get_genmodel_jar))

C26_Witness ==
    /\ last.op = "download_mojo"
    /\ Args.algo \in MojoAlgos
    /\ Args.get_genmodel_jar
    /\ last.outcome = "return"
    /\ Len(Requests) = Cardinality({"jar", "mojo"})
    /\ Requests[1].arg = "GET /3/h2o-genmodel.jar"
    /\ Requests[Len(Requests)].arg = "GET /3/Models/mojo"

====
